---- MODULE Spec2Model ----
(***************************************************************************)
(* A model of lithdew/nicehttp: the redirect-following executor            *)
(* (Client.DoDeadline), the header prober (Client.QueryHeadersDeadline)    *)
(* and the chunked parallel downloader (Client.DownloadInChunksDeadline)   *)
(* with its errgroup of workers, its bounded work queue and its sink.      *)
(*                                                                         *)
(* The state machines of the module share its variables:                   *)
(*   SpecDo            one call of DoDeadline, made directly or by         *)
(*                     QueryHeadersDeadline, one action per loop iteration *)
(*   Spec / SpecLive   one call of DownloadInChunksDeadline: the producer  *)
(*                     (the calling goroutine), the workers, the timer     *)
(*   SpecDownload      DownloadBytesDeadline, DownloadFileDeadline,        *)
(*                     DownloadDeadline and DownloadSeriallyDeadline       *)
(*   SpecBuffer        Write and WriteAt calls on a WriteBuffer, in turn   *)
(*   SpecAdapter       Writes through a WriterAtOffset over a WriteBuffer  *)
(*   SpecRace          WriteAt calls of several goroutines on a            *)
(*                     WriteBuffer, statement by statement.                *)
(* The transport (fasthttp) is the environment: every result it can give   *)
(* is an input of the action that calls it.                                *)
(***************************************************************************)
EXTENDS Integers, Sequences, FiniteSets, Bags, TLC

(* ------------------------------ bounds -------------------------------- *)

MaxRedirects == 2

MaxLength == 3

MaxChunkSize == 2

MaxWorkers == 2

(* ------------------------------ values -------------------------------- *)

\* error values are records, so that any two of them can be compared
Nil == [kind |-> "nil"]

\* two errors a transport can return
ErrTimeout == [kind |-> "timeout"]

ErrConnection == [kind |-> "connection"]

TransportErrors == {ErrTimeout, ErrConnection}

\* errors.New("missing 'Location' header after redirect")
ErrMissingLocation == [kind |-> "missing 'Location' header after redirect"]

\* errors.New("redirected too many times")
ErrTooManyRedirects == [kind |-> "redirected too many times"]

\* the error of a failing io.WriterAt
ErrWrite == [kind |-> "write"]

Url == "http://origin/"

\* absolute targets a redirect response can name; "" is an absent header
Locations == {"http://a/", "http://b/"}

NoLocation == ""

StatusCodes == {200, 206, 301, 302, 303, 304, 307, 308, 404}

\* values of (*ResponseHeader).ContentLength(): -1 chunked, -2 identity
ContentLengths == {-2, -1, 0, 3}

AcceptRangesValues == {"", "bytes", "none", "Bytes"}

\* fasthttp.StatusCodeIsRedirect
StatusCodeIsRedirect(code) == code \in {301, 302, 303, 307, 308}

\* what one transport call hands back: its error and the response it filled
TransportResults ==
    [err : {Nil} \cup TransportErrors, status : StatusCodes,
     location : Locations \cup {NoLocation},
     contentLength : ContentLengths, acceptRanges : AcceptRangesValues]

\* res.Reset(): an empty response
ResetResponse ==
    [status |-> 200, location |-> NoLocation, contentLength |-> 0,
     acceptRanges |-> ""]

ResponseOf(t) ==
    [status |-> t.status, location |-> t.location,
     contentLength |-> t.contentLength, acceptRanges |-> t.acceptRanges]

(* ------------------------- Client.DoDeadline -------------------------- *)

\* req.URI().UpdateBytes(location) for an absolute location: the request
\* now targets it; an empty argument leaves the URI as it is
UpdateBytesKeep(uri, location) == uri

UpdateBytes(uri, location) == IF location = NoLocation THEN uri ELSE location

\* the loop condition  i <= c.MaxRedirectCount
LoopCondOffByOne(i, m) == i <= m + 1

LoopCond(i, m) == i <= m

\* len(location) == 0
LocationPresentAlways(location) == TRUE

LocationPresent(location) == location # NoLocation

\* if err != nil { return err }
TransportFailedNever(t) == FALSE

TransportFailed(t) == t.err # Nil

\* One iteration of the loop on the transport's result t, and the loop's
\* exit when the iteration was the last one the condition allows.
\* st = [pc, i, uri, res, err]; pc is "loop" while the loop runs.
DoDeadlineIter(st, t, m) ==
    IF TransportFailed(t)
    THEN [st EXCEPT !.pc = "done", !.err = t.err, !.res = ResponseOf(t)]
    ELSE IF ~StatusCodeIsRedirect(t.status)
    THEN [st EXCEPT !.pc = "done", !.err = Nil, !.res = ResponseOf(t)]
    ELSE IF ~LocationPresent(t.location)
    THEN [st EXCEPT !.pc = "done", !.err = ErrMissingLocation,
                    !.res = ResponseOf(t)]
    ELSE IF LoopCond(st.i + 1, m)
    THEN [st EXCEPT !.i = st.i + 1,
                    !.uri = UpdateBytes(st.uri, t.location),
                    !.res = ResetResponse]
    ELSE [st EXCEPT !.pc = "done", !.i = st.i + 1,
                    !.uri = UpdateBytes(st.uri, t.location),
                    !.res = ResetResponse, !.err = ErrTooManyRedirects]

\* DoDeadline entered with the caller's req and res: the loop starts, or
\* with a negative budget is left at once
DoDeadlineStart(url, m) ==
    IF LoopCond(0, m)
    THEN [pc |-> "loop", i |-> 0, uri |-> url, res |-> ResetResponse,
          err |-> Nil]
    ELSE [pc |-> "done", i |-> 0, uri |-> url, res |-> ResetResponse,
          err |-> ErrTooManyRedirects]

\* what kind of result a transport call gave (for the history variables)
KindOf(t) ==
    IF t.err # Nil THEN "error"
    ELSE IF ~StatusCodeIsRedirect(t.status) THEN "final"
    ELSE IF t.location = NoLocation THEN "noLocation"
    ELSE "redirect"

(* ---------------------- Client.QueryHeadersDeadline ------------------- *)

\* if contentLength = res.Header.ContentLength(); contentLength <= 0 { = 0 }
ClampContentLengthRaw(n) == n

ClampContentLength(n) == IF n <= 0 THEN 0 ELSE n

\* bytesutil.String(res.Header.Peek("Accept-Ranges")) == "bytes"
IsBytesToken(v) == v = "bytes"

\* the named results after the if statement
QueryHeadersResult(st) ==
    IF st.err = Nil
    THEN [contentLength |-> ClampContentLength(st.res.contentLength),
          acceptsRanges |-> IsBytesToken(st.res.acceptRanges)]
    ELSE [contentLength |-> 0, acceptsRanges |-> FALSE]

\* c.DoDeadline as one call: the loop run over the results the transport
\* gives call after call; a script of m + 1 results always ends the loop
RECURSIVE DoDeadline(_, _, _)
DoDeadline(st, script, m) ==
    IF st.pc = "done" \/ script = <<>> THEN st
    ELSE DoDeadline(DoDeadlineIter(st, Head(script), m), Tail(script), m)

(* --------------------------- the sink (writer.go) --------------------- *)

(* A byte slice s is [dat, spare]: dat holds s[0:len(s)], spare the rest  *)
(* of its backing array, s[len(s):cap(s)], with whatever bytes an earlier *)
(* use left there.  An array the runtime allocates is zeroed, so the      *)
(* capacity append adds beyond what it was asked for is left out: zeros   *)
(* there and no capacity there give the same bytes.  The file of          *)
(* DownloadFileDeadline is held the same way, with no spare.              *)

Zeros(n) == [k \in 1..n |-> 0]

\* a nil slice
NilSlice == [dat |-> <<>>, spare |-> <<>>]

\* bytesutil.ExtendSlice(b, needLen):  b = b[:cap(b)];
\* if n := needLen - cap(b); n > 0 { b = append(b, make([]byte, n)...) };
\* return b[:needLen]
ExtendSlice(b, needLen) ==
    LET full == b.dat \o b.spare
        n == needLen - Len(full)
        grown == IF n > 0 THEN full \o Zeros(n) ELSE full
    IN [dat |-> SubSeq(grown, 1, needLen),
        spare |-> SubSeq(grown, needLen + 1, Len(grown))]

\* copy(dst[off:], p): as many bytes of p as dst has room for from off on
Copy(dst, p, off) ==
    [dst EXCEPT !.dat = [k \in 1..Len(dst.dat) |->
                            IF k > off /\ k <= off + Len(p) THEN p[k - off]
                            ELSE dst.dat[k]]]

\* WriteBuffer.WriteAt(p, off): grow to off + len(p) if shorter, then copy
WriteAt(dst, p, off) ==
    LET min == off + Len(p)
        d == IF min > Len(dst.dat) THEN ExtendSlice(dst, min) ELSE dst
    IN Copy(d, p, off)

\* WriteBuffer.Write(p): b.dst = append(b.dst, p...), into the spare
\* capacity when p fits there, into a new array otherwise
Write(dst, p) ==
    [dat |-> dst.dat \o p,
     spare |-> IF Len(p) <= Len(dst.spare)
               THEN SubSeq(dst.spare, Len(p) + 1, Len(dst.spare))
               ELSE <<>>]

\* (*os.File).Write(p) on the file that os.Create made and Truncate sized,
\* its position still 0: p replaces the bytes from 0 on, and the file grows
\* when p is longer
FileWrite(f, p) ==
    [dat |-> [k \in 1..(IF Len(p) > Len(f.dat) THEN Len(p) ELSE Len(f.dat))
                 |-> IF k <= Len(p) THEN p[k] ELSE f.dat[k]],
     spare |-> <<>>]

\* WriterAtOffset.Write(b): w.dst.WriteAt(b, w.offset)
WriterAtOffsetWrite(dst, offset, b) == WriteAt(dst, b, offset)

\* w.offset after w.Write(b): Write has a value receiver and assigns nothing
WriterAtOffsetAdvanced(offset, b) == offset + Len(b)

WriterAtOffsetAfterWrite(offset, b) == offset

(* ------------------------ the resource served ------------------------- *)

Min(a, b) == IF a < b THEN a ELSE b

\* byte k (from 0) of the resource; never 0, the value of an unwritten byte
Resource(k) == (k % 2) + 1

\* the body of a response to a request without a range: the whole resource
FullBody(len) == [k \in 1..len |-> Resource(k - 1)]

\* the body of the response to Range: bytes=first-last, both inclusive; a
\* server cuts a last position beyond the resource to its last byte
RangeBody(first, last, len) ==
    [k \in 1..(Min(last, len - 1) - first + 1) |-> Resource(first + k - 1)]

(* ------------------- Client.DownloadInChunksDeadline ------------------ *)

\* r.End += c.ChunkSize; if r.End > length { r.End = length }
NextEnd(r, cs, len) == Min(r.End + cs, len)

\* r.Start += c.ChunkSize; if r.Start > length { r.Start = length }
NextStart(r, cs, len) == Min(r.Start + cs, len)

\* req.Header.SetByteRange(r.Start, r.End): both positions are inclusive
SetByteRange(r) == [first |-> r.Start, last |-> r.End]

\* errgroup: errOnce.Do(func() { g.err = err }) keeps the first error only
ErrOnceLast(gerr, err) == err

ErrOnce(gerr, err) == IF gerr = Nil THEN err ELSE gerr

\* fmt.Errorf("worker %d failed to get bytes range (start: %d, end: %d): %w")
ErrGetRange(w, r, err) ==
    [kind |-> "failed to get bytes range", worker |-> w, start |-> r.Start,
     end |-> r.End, cause |-> err]

\* fmt.Errorf("worker %d failed to write to file at offset %d: %w")
ErrWriteAt(w, r, err) ==
    [kind |-> "failed to write to file", worker |-> w, offset |-> r.Start,
     cause |-> err]

\* fmt.Errorf("failed to download %q in chunks: %w", url, err), or nil
WaitResult(gerr) ==
    IF gerr # Nil
    THEN [kind |-> "failed to download in chunks", url |-> Url, cause |-> gerr]
    ELSE Nil

\* for r := range ch  ends: the channel is closed and its buffer is empty
RangeLoopEndsOnClose(c, isClosed) == isClosed

RangeLoopEnds(c, isClosed) == c = <<>> /\ isClosed

\* what the worker's function returns after the loop:  return nil
RangeLoopReturnClosed == [kind |-> "closed"]

RangeLoopReturn == Nil

\* the transport results a worker's request gets in the runs of the model:
\* the range served, or a transport error (what c.DoDeadline makes of
\* redirects is the subject of SpecDo)
WorkerResults ==
    { [err |-> Nil, status |-> 206, location |-> NoLocation,
       contentLength |-> 3, acceptRanges |-> "bytes"],
      [err |-> ErrTimeout, status |-> 200, location |-> NoLocation,
       contentLength |-> 0, acceptRanges |-> ""] }

Scripts(m) == [1..(m + 1) -> WorkerResults]

\* the errors (or Nil) c.DoDeadline can return to a worker
FetchErrors(m) ==
    {DoDeadline(DoDeadlineStart(Url, m), script, m).err :
         script \in Scripts(m)}

\* the same, for every redirect budget of the model
FetchErrorsByBudget == [m \in 0..MaxRedirects |-> FetchErrors(m)]

(* -------------- Client.DownloadDeadline and its callers --------------- *)

\* fmt.Errorf("content length is %d - see doc for ...", contentLength)
ErrContentLength(n) == [kind |-> "content length", contentLength |-> n]

\* fmt.Errorf("failed to download %q: %w", url, err)
ErrDownload(url, err) ==
    [kind |-> "failed to download", url |-> url, cause |-> err]

\* fmt.Errorf("failed to open dest file: %w", err)
ErrOpenFile == [kind |-> "failed to open dest file"]

\* fmt.Errorf("failed to truncate file to %d byte(s): %w", contentLength, err)
ErrTruncate(n) == [kind |-> "failed to truncate file", contentLength |-> n]

\* if c.AcceptsRanges && acceptsRanges
UseChunksEither(car, ar) == car \/ ar

UseChunks(car, ar) == car /\ ar

\* the branch DownloadDeadline takes: the error of a length that is not
\* positive, the chunked downloader, or the serial downloader
DownloadDeadlinePath(car, ar, n) ==
    IF UseChunks(car, ar)
    THEN IF n <= 0 THEN "error" ELSE "chunks"
    ELSE "serial"

\* DownloadSeriallyDeadline:  if err := c.DoDeadline(...); err != nil
SerialFailedNever(err) == FALSE

SerialFailed(err) == err # Nil

(* ------------------------------- state -------------------------------- *)

VARIABLES
    maxRedirectCount,   \* c.MaxRedirectCount
    caller,             \* which operation the executor runs for
    x,                  \* DoDeadline: [pc, i, uri, res, err]
    calls,              \* history: transport calls made
    redirects,          \* history: redirect responses that carried a Location
    last,               \* history: kind, error and Location of the last result
    q,                  \* QueryHeadersDeadline: [pc, contentLength, acceptsRanges]
    length,             \* the length argument
    chunkSize,          \* c.ChunkSize
    numWorkers,         \* c.NumWorkers
    deadline,           \* "zero", "past" or "future" at the time of the call
    timerFired,         \* the armed timer has fired: its channel is ready
    ppc,                \* the calling goroutine: "spawn", "feed", "wait", "done"
    spawned,            \* workers started by g.Go so far
    r,                  \* the producer's ByteRange
    ch,                 \* the queue: the channel's buffer
    closed,             \* close(ch) has run
    wpc,                \* worker -> "idle", "recv", "fetch", "write", "once",
                        \*           "done"
    wr,                 \* worker -> the range it dequeued last
    werr,               \* worker -> the error its function returned, or Nil
    gerr,               \* the errgroup's err
    result,             \* what DownloadInChunksDeadline returned
    sink,               \* the bytes of the sink f
    enq,                \* history: the ranges sent on ch, in order
    failOrder,          \* history: the workers whose function returned an
                        \*          error, in the order of their returns
    cut,                \* history: the feeding loop was left by the timeout
    got,                \* history: worker -> it has dequeued a range
    asked,              \* history: worker -> it has called c.DoDeadline
    fetched,            \* history: the bag of ranges c.DoDeadline was called for
    late,               \* history: a chunk was written after the first failure
    written,            \* history: the ranges whose body was written to f
    cAcceptsRanges,     \* c.AcceptsRanges
    d,                  \* DownloadDeadline and its callers: [pc, path, ...]
    buf,                \* WriteBuffer: b.dst
    prev,               \* history: b.dst before the last call on the buffer
    op,                 \* history: the last call on the buffer, and its number
    bw,                 \* writer -> its WriteAt call in progress
    wao                 \* a WriterAtOffset: [offset0, offset], or NoWriter

execVars == <<caller, x, calls, redirects, last, q>>

prodVars == <<ppc, spawned, r, closed, enq, cut, result>>

workVars == <<wpc, wr, werr, gerr, failOrder, sink, got, asked, fetched,
              late, written>>

chunkVars == <<length, chunkSize, numWorkers, deadline, timerFired, prodVars,
               ch, workVars>>

downVars == <<cAcceptsRanges, d>>

bufVars == <<buf, prev, op, bw, wao>>

auxVars == <<downVars, bufVars>>

vars == <<maxRedirectCount, execVars, chunkVars, auxVars>>

Workers == 0..(numWorkers - 1)

\* the executor's variables while the chunked downloader is the model
ExecIdle ==
    /\ caller = "none"
    /\ x = [DoDeadlineStart(Url, 0) EXCEPT !.pc = "done"]
    /\ calls = 0
    /\ redirects = 0
    /\ last = [kind |-> "none", err |-> Nil, location |-> NoLocation]
    /\ q = [pc |-> "idle", contentLength |-> 0, acceptsRanges |-> FALSE]

\* the downloader's variables while the executor is the model
ChunksIdle ==
    /\ length = 0 /\ chunkSize = 0 /\ numWorkers = 0
    /\ deadline = "zero" /\ timerFired = FALSE
    /\ ppc = "idle" /\ spawned = 0 /\ r = [Start |-> 0, End |-> 0]
    /\ ch = <<>> /\ closed = FALSE
    /\ wpc = <<>> /\ wr = <<>> /\ werr = <<>>
    /\ gerr = Nil /\ result = Nil /\ sink = NilSlice
    /\ enq = <<>> /\ failOrder = <<>> /\ cut = FALSE
    /\ got = <<>> /\ asked = <<>> /\ fetched = EmptyBag
    /\ late = FALSE /\ written = {}

\* the downloading front end's variables while another operation is the model
DownIdle ==
    /\ cAcceptsRanges = FALSE
    /\ d = [pc |-> "idle"]

\* no call has been made on the buffer yet
\* no WriterAtOffset has been made
NoWriter == [offset0 |-> 0, offset |-> 0]

NoCall == [kind |-> "none", p |-> <<>>, off |-> 0, n |-> 0]

\* the WriteBuffer's variables while another operation is the model
BufIdle ==
    /\ buf = NilSlice /\ prev = NilSlice /\ op = NoCall /\ bw = <<>>
    /\ wao = NoWriter

(* ----------------- SpecDo: the redirect-following executor ------------ *)

InitDo ==
    /\ maxRedirectCount \in 0..MaxRedirects
    /\ caller \in {"DoDeadline", "QueryHeadersDeadline"}
    /\ x = DoDeadlineStart(Url, maxRedirectCount)
    /\ calls = 0
    /\ redirects = 0
    /\ last = [kind |-> "none", err |-> Nil, location |-> NoLocation]
    /\ q = [pc |-> IF caller = "QueryHeadersDeadline" THEN "do" ELSE "idle",
            contentLength |-> 0, acceptsRanges |-> FALSE]
    /\ ChunksIdle
    /\ DownIdle
    /\ BufIdle

\* one iteration of DoDeadline's loop: the transport call, with a result
\* out of T, and what follows
Hop(T) ==
    /\ x.pc = "loop"
    /\ \E t \in T :
         /\ x' = DoDeadlineIter(x, t, maxRedirectCount)
         /\ calls' = calls + 1
         /\ redirects' = IF KindOf(t) = "redirect" THEN redirects + 1
                          ELSE redirects
         /\ last' = [kind |-> KindOf(t), err |-> t.err,
                     location |-> IF KindOf(t) = "redirect" THEN t.location
                                  ELSE last.location]
    /\ UNCHANGED <<maxRedirectCount, caller, q, chunkVars, auxVars>>

DoHop == Hop(TransportResults)

\* QueryHeadersDeadline after c.DoDeadline has returned
QueryHeadersReturn ==
    /\ q.pc = "do"
    /\ x.pc = "done"
    /\ q' = [pc |-> "returned",
             contentLength |-> QueryHeadersResult(x).contentLength,
             acceptsRanges |-> QueryHeadersResult(x).acceptsRanges]
    /\ UNCHANGED <<maxRedirectCount, caller, x, calls, redirects, last,
                   chunkVars, auxVars>>

NextDo == DoHop \/ QueryHeadersReturn

SpecDo == InitDo /\ [][NextDo]_vars

(* ------------- Spec: one call of DownloadInChunksDeadline ------------- *)

Init ==
    /\ maxRedirectCount \in {0, MaxRedirects}
    /\ length \in 1..MaxLength
    /\ chunkSize \in 1..MaxChunkSize
    /\ numWorkers \in 1..MaxWorkers
    /\ deadline \in {"zero", "past", "future"}
    /\ timerFired = FALSE
    /\ ppc = "spawn" /\ spawned = 0 /\ r = [Start |-> 0, End |-> 0]
    /\ ch = <<>> /\ closed = FALSE
    /\ wpc = [w \in Workers |-> "idle"]
    /\ wr = [w \in Workers |-> [Start |-> 0, End |-> 0]]
    /\ werr = [w \in Workers |-> Nil]
    /\ gerr = Nil /\ result = Nil
    /\ sink = [dat |-> Zeros(length), spare |-> <<>>]
    /\ enq = <<>> /\ failOrder = <<>> /\ cut = FALSE
    /\ got = [w \in Workers |-> FALSE] /\ asked = [w \in Workers |-> FALSE]
    /\ fetched = EmptyBag /\ late = FALSE /\ written = {}
    /\ ExecIdle
    /\ DownIdle
    /\ BufIdle

\* if t := -time.Since(deadline); t > 0 { timeout = timer.C }
TimerArmed == deadline = "future"

\* the timer armed at the start of the call fires
TimerFire ==
    /\ TimerArmed /\ ~timerFired /\ ppc # "done"
    /\ timerFired' = TRUE
    /\ UNCHANGED <<maxRedirectCount, execVars, auxVars, length, chunkSize,
                   numWorkers, deadline, prodVars, ch, workVars>>

\* g.Go(func() error {...}): the next worker starts and waits on ch
Spawn ==
    /\ ppc = "spawn"
    /\ spawned < numWorkers
    /\ wpc' = [wpc EXCEPT ![spawned] = "recv"]
    /\ spawned' = spawned + 1
    /\ ppc' = IF spawned + 1 < numWorkers THEN "spawn" ELSE "feed"
    /\ UNCHANGED <<maxRedirectCount, execVars, auxVars, length, chunkSize,
                   numWorkers, deadline, timerFired, r, closed, enq, cut,
                   result, ch, wr, werr, gerr, failOrder, sink, got, asked,
                   fetched, late, written>>

\* case <-timeout: can be taken
TimeoutReadyNilChannel == FALSE

TimeoutReady == timerFired

\* case ch <- r: can be taken
SendReadyUnbuffered == TRUE

SendReady == Len(ch) < numWorkers

\* one iteration of the Feed loop that takes  case ch <- r
FeedSend ==
    /\ ppc = "feed"
    /\ r.End < length
    /\ SendReady
    /\ LET e == NextEnd(r, chunkSize, length)
           sent == [Start |-> r.Start, End |-> e]
       IN /\ ch' = Append(ch, sent)
          /\ enq' = Append(enq, sent)
          /\ r' = [Start |-> NextStart(r, chunkSize, length), End |-> e]
    /\ UNCHANGED <<maxRedirectCount, execVars, auxVars, length, chunkSize,
                   numWorkers, deadline, timerFired, ppc, spawned, closed,
                   cut, result, workVars>>

\* the iteration that takes  case <-timeout: break Feed, then close(ch)
FeedTimeout ==
    /\ ppc = "feed"
    /\ r.End < length
    /\ TimeoutReady
    /\ r' = [r EXCEPT !.End = NextEnd(r, chunkSize, length)]
    /\ cut' = TRUE
    /\ closed' = TRUE
    /\ ppc' = "wait"
    /\ UNCHANGED <<maxRedirectCount, execVars, auxVars, length, chunkSize,
                   numWorkers, deadline, timerFired, spawned, enq, result, ch,
                   workVars>>

\* the loop condition r.End < length fails: close(ch)
FeedDone ==
    /\ ppc = "feed"
    /\ ~(r.End < length)
    /\ closed' = TRUE
    /\ ppc' = "wait"
    /\ UNCHANGED <<maxRedirectCount, execVars, auxVars, length, chunkSize,
                   numWorkers, deadline, timerFired, spawned, r, enq, cut,
                   result, ch, workVars>>

\* g.Wait() can return: the group's WaitGroup counts every function
\* started with g.Go that has not returned yet
WaitReadyOnFirstReturn == \E w \in Workers : wpc[w] = "done"

WaitReady == \A w \in Workers : wpc[w] = "done"

\* g.Wait() returns once every worker has returned
Wait ==
    /\ ppc = "wait"
    /\ WaitReady
    /\ result' = WaitResult(gerr)
    /\ ppc' = "done"
    /\ UNCHANGED <<maxRedirectCount, execVars, auxVars, length, chunkSize,
                   numWorkers, deadline, timerFired, spawned, r, closed, enq,
                   cut, ch, workVars>>

\* the channel after a receive: the value received is taken out of it
DequeueKeep(c) == c

Dequeue(c) == Tail(c)

\* the worker's function returns err to the goroutine g.Go started:
\* if err := f(); err != nil { g.errOnce.Do(...) } is still to run for an
\* error; for nil the goroutine is done
WorkerReturn(w, err) ==
    /\ wpc' = [wpc EXCEPT ![w] = IF err # Nil THEN "once" ELSE "done"]
    /\ werr' = [werr EXCEPT ![w] = err]
    /\ failOrder' = IF err # Nil THEN Append(failOrder, w) ELSE failOrder
    /\ gerr' = gerr

\* g.errOnce.Do(func() { g.err = err }), then the goroutine is done
Once(w) ==
    /\ wpc[w] = "once"
    /\ gerr' = ErrOnce(gerr, werr[w])
    /\ wpc' = [wpc EXCEPT ![w] = "done"]
    /\ UNCHANGED <<maxRedirectCount, execVars, auxVars, length, chunkSize,
                   numWorkers, deadline, timerFired, prodVars, ch, wr, werr,
                   failOrder, sink, got, asked, fetched, late, written>>

\* for r := range ch: the next range, or the end of the loop on a closed
\* and drained channel
Recv(w) ==
    /\ wpc[w] = "recv"
    /\ \/ /\ ch # <<>>
          /\ ch' = Dequeue(ch)
          /\ wr' = [wr EXCEPT ![w] = Head(ch)]
          /\ got' = [got EXCEPT ![w] = TRUE]
          /\ wpc' = [wpc EXCEPT ![w] = "fetch"]
          /\ UNCHANGED <<werr, gerr, failOrder>>
       \/ /\ RangeLoopEnds(ch, closed)
          /\ WorkerReturn(w, RangeLoopReturn)
          /\ UNCHANGED <<ch, wr, got>>
    /\ UNCHANGED <<maxRedirectCount, execVars, auxVars, length, chunkSize,
                   numWorkers, deadline, timerFired, prodVars, sink, asked,
                   fetched, late, written>>

\* req.Header.SetByteRange(r.Start, r.End); c.DoDeadline(req, res, deadline)
Fetch(w) ==
    /\ wpc[w] = "fetch"
    /\ fetched' = fetched (+) SetToBag({wr[w]})
    /\ asked' = [asked EXCEPT ![w] = TRUE]
    /\ \E err \in FetchErrorsByBudget[maxRedirectCount] :
         IF err # Nil
         THEN WorkerReturn(w, ErrGetRange(w, wr[w], err))
         ELSE /\ wpc' = [wpc EXCEPT ![w] = "write"]
              /\ UNCHANGED <<werr, gerr, failOrder>>
    /\ UNCHANGED <<maxRedirectCount, execVars, auxVars, length, chunkSize,
                   numWorkers, deadline, timerFired, prodVars, ch, wr, sink,
                   got, late, written>>

\* res.BodyWriteTo(NewWriterAtOffset(f, int64(r.Start))): one Write of the
\* body, which the sink takes or refuses
WriteBody(w) ==
    /\ wpc[w] = "write"
    /\ LET h == SetByteRange(wr[w])
           body == RangeBody(h.first, h.last, length)
       IN \/ /\ sink' = WriterAtOffsetWrite(sink, wr[w].Start, body)
             /\ late' = (late \/ failOrder # <<>>)
             /\ written' = written \cup {wr[w]}
             /\ wpc' = [wpc EXCEPT ![w] = "recv"]
             /\ UNCHANGED <<werr, gerr, failOrder>>
          \/ /\ WorkerReturn(w, ErrWriteAt(w, wr[w], ErrWrite))
             /\ UNCHANGED <<sink, late, written>>
    /\ UNCHANGED <<maxRedirectCount, execVars, auxVars, length, chunkSize,
                   numWorkers, deadline, timerFired, prodVars, ch, wr, got,
                   asked, fetched>>

Producer == Spawn \/ FeedSend \/ FeedTimeout \/ FeedDone \/ Wait

Worker(w) ==
    w \in Workers /\ (Recv(w) \/ Fetch(w) \/ WriteBody(w) \/ Once(w))

Next ==
    \/ TimerFire
    \/ Spawn
    \/ FeedSend
    \/ FeedTimeout
    \/ FeedDone
    \/ Wait
    \/ \E w \in Workers : Recv(w)
    \/ \E w \in Workers : Fetch(w)
    \/ \E w \in Workers : WriteBody(w)
    \/ \E w \in Workers : Once(w)

Spec == Init /\ [][Next]_vars

(* SpecLive: the same call with a deadline in the future, under the      *)
(* scheduling the claims about termination assume: every goroutine that  *)
(* can take a step eventually takes one, and every transport call that   *)
(* was dispatched returns.  The redirect budget is 0 here: the results   *)
(* c.DoDeadline can hand a worker are the same for every budget.         *)

InitLive == Init /\ deadline = "future" /\ maxRedirectCount = 0

SpecLive ==
    /\ InitLive
    /\ [][Next]_vars
    /\ WF_vars(Producer)
    /\ \A w \in 0..(MaxWorkers - 1) : WF_vars(Worker(w))

(* ---- SpecDownload: DownloadBytesDeadline, DownloadFileDeadline, ------ *)
(* ---- DownloadDeadline and DownloadSeriallyDeadline ------------------- *)
(* d = [pc, path, contentLength, acceptsRanges, size, err, execs, writes, *)
(* sink0]: pc is "probe" while QueryHeadersDeadline runs, "decide" at the *)
(* entry of DownloadDeadline, "serial" while DownloadSeriallyDeadline's   *)
(* request runs, "chunks" once DownloadInChunksDeadline has been called   *)
(* (the call Spec models), "done" once the call has returned; size is the *)
(* resource's length, execs counts the calls of c.DoDeadline the serial   *)
(* downloader made, writes the Writes it made, sink0 is the sink as the   *)
(* serial downloader found it.                                            *)

\* the dst a caller hands DownloadBytesDeadline: nil, bytes to keep, or a
\* used buffer cut to length 0 for reuse
DstSlices ==
    {NilSlice, [dat |-> <<9, 9>>, spare |-> <<>>],
     [dat |-> <<>>, spare |-> <<7, 7>>]}

DownloadCallers ==
    {"DownloadBytesDeadline", "DownloadFileDeadline", "DownloadDeadline",
     "DownloadSeriallyDeadline"}

InitDownload ==
    /\ maxRedirectCount \in 0..MaxRedirects
    /\ caller \in DownloadCallers
    /\ cAcceptsRanges \in BOOLEAN
    /\ calls = 0
    /\ redirects = 0
    /\ last = [kind |-> "none", err |-> Nil, location |-> NoLocation]
    /\ x = IF caller = "DownloadDeadline"
           THEN [DoDeadlineStart(Url, 0) EXCEPT !.pc = "done"]
           ELSE DoDeadlineStart(Url, maxRedirectCount)
    /\ q = [pc |-> IF caller \in {"DownloadBytesDeadline",
                                  "DownloadFileDeadline"}
                   THEN "do" ELSE "idle",
            contentLength |-> 0, acceptsRanges |-> FALSE]
    /\ \E n \in ContentLengths, ar \in BOOLEAN, size \in 1..MaxLength :
         d = [pc |-> CASE caller = "DownloadDeadline" -> "decide"
                       [] caller = "DownloadSeriallyDeadline" -> "serial"
                       [] OTHER -> "probe",
              path |-> IF caller = "DownloadSeriallyDeadline" THEN "serial"
                       ELSE "none",
              contentLength |-> IF caller = "DownloadDeadline" THEN n ELSE 0,
              acceptsRanges |-> caller = "DownloadDeadline" /\ ar,
              size |-> size, err |-> Nil,
              execs |-> IF caller = "DownloadSeriallyDeadline" THEN 1 ELSE 0,
              writes |-> 0, sink0 |-> NilSlice]
    /\ length = 0 /\ chunkSize = 0 /\ numWorkers = 0
    /\ deadline = "zero" /\ timerFired = FALSE
    /\ ppc = "idle" /\ spawned = 0 /\ r = [Start |-> 0, End |-> 0]
    /\ ch = <<>> /\ closed = FALSE
    /\ wpc = <<>> /\ wr = <<>> /\ werr = <<>>
    /\ gerr = Nil /\ result = Nil
    /\ sink \in IF caller = "DownloadBytesDeadline" THEN DstSlices
                ELSE {NilSlice}
    /\ enq = <<>> /\ failOrder = <<>> /\ cut = FALSE
    /\ got = <<>> /\ asked = <<>> /\ fetched = EmptyBag
    /\ late = FALSE /\ written = {}
    /\ BufIdle

\* DownloadDeadline: the branch is taken; the serial branch enters
\* DownloadSeriallyDeadline, which calls c.DoDeadline
Decide(dd, snk) ==
    LET path == DownloadDeadlinePath(cAcceptsRanges, dd.acceptsRanges,
                                     dd.contentLength)
    IN /\ d' = [dd EXCEPT
                  !.path = path,
                  !.pc = CASE path = "error" -> "done"
                           [] path = "chunks" -> "chunks"
                           [] OTHER -> "serial",
                  !.err = IF path = "error"
                          THEN ErrContentLength(dd.contentLength) ELSE Nil,
                  !.execs = IF path = "serial" THEN 1 ELSE 0,
                  !.sink0 = snk]
       /\ x' = IF path = "serial"
               THEN DoDeadlineStart(Url, maxRedirectCount) ELSE x

\* DownloadBytesDeadline after the probe: the buffer over dst extended to
\* contentLength, then DownloadDeadline
DownloadBytesProbed ==
    /\ caller = "DownloadBytesDeadline"
    /\ d.pc = "probe" /\ q.pc = "returned"
    /\ sink' = ExtendSlice(sink, q.contentLength)
    /\ Decide([d EXCEPT !.contentLength = q.contentLength,
                        !.acceptsRanges = q.acceptsRanges],
              ExtendSlice(sink, q.contentLength))
    /\ UNCHANGED <<maxRedirectCount, caller, calls, redirects, last, q,
                   cAcceptsRanges, bufVars, length, chunkSize, numWorkers,
                   deadline, timerFired, prodVars, ch, wpc, wr, werr, gerr,
                   failOrder, got, asked, fetched, late,
                   written>>

\* DownloadFileDeadline after the probe: the file is created and truncated
\* to contentLength, or one of the two fails; then DownloadDeadline
DownloadFileProbed ==
    /\ caller = "DownloadFileDeadline"
    /\ d.pc = "probe" /\ q.pc = "returned"
    /\ \/ /\ sink' = [dat |-> Zeros(q.contentLength), spare |-> <<>>]
          /\ Decide([d EXCEPT !.contentLength = q.contentLength,
                              !.acceptsRanges = q.acceptsRanges],
                    [dat |-> Zeros(q.contentLength), spare |-> <<>>])
       \/ /\ \E err \in {ErrOpenFile, ErrTruncate(q.contentLength)} :
               d' = [d EXCEPT !.pc = "done", !.err = err,
                              !.contentLength = q.contentLength,
                              !.acceptsRanges = q.acceptsRanges]
          /\ UNCHANGED <<sink, x>>
    /\ UNCHANGED <<maxRedirectCount, caller, calls, redirects, last, q,
                   cAcceptsRanges, bufVars, length, chunkSize, numWorkers,
                   deadline, timerFired, prodVars, ch, wpc, wr, werr, gerr,
                   failOrder, got, asked, fetched, late,
                   written>>

\* DownloadDeadline called by the user with its own arguments
DownloadDeadlineCalled ==
    /\ caller = "DownloadDeadline"
    /\ d.pc = "decide"
    /\ Decide(d, sink)
    /\ UNCHANGED <<maxRedirectCount, caller, calls, redirects, last, q,
                   cAcceptsRanges, bufVars, chunkVars>>

\* DownloadSeriallyDeadline after c.DoDeadline has returned: the wrapped
\* error, or res.BodyWriteTo(w), one Write that the sink takes or refuses
SerialReturn ==
    /\ d.pc = "serial"
    /\ x.pc = "done"
    /\ IF SerialFailed(x.err)
       THEN /\ d' = [d EXCEPT !.pc = "done",
                              !.err = ErrDownload(Url, x.err)]
            /\ UNCHANGED sink
       ELSE \/ /\ sink' = IF caller = "DownloadFileDeadline"
                          THEN FileWrite(sink, FullBody(d.size))
                          ELSE Write(sink, FullBody(d.size))
               /\ d' = [d EXCEPT !.pc = "done", !.writes = d.writes + 1]
            \/ /\ d' = [d EXCEPT !.pc = "done", !.writes = d.writes + 1,
                                 !.err = ErrWrite]
               /\ UNCHANGED sink
    /\ UNCHANGED <<maxRedirectCount, execVars, cAcceptsRanges, bufVars,
                   length, chunkSize, numWorkers, deadline, timerFired,
                   prodVars, ch, wpc, wr, werr, gerr, failOrder, got,
                   asked, fetched, late, written>>

\* the results of the serial downloader's request: of the response it
\* reads the status, the Location and the body, no other header
SerialResults ==
    {t \in TransportResults :
         t.contentLength = -1 /\ t.acceptRanges = ""}

\* a loop iteration of the probe's c.DoDeadline
ProbeHop == q.pc = "do" /\ Hop(TransportResults)

\* a loop iteration of the serial downloader's c.DoDeadline
SerialHop == d.pc = "serial" /\ Hop(SerialResults)

NextDownload ==
    \/ ProbeHop
    \/ SerialHop
    \/ QueryHeadersReturn
    \/ DownloadBytesProbed
    \/ DownloadFileProbed
    \/ DownloadDeadlineCalled
    \/ SerialReturn

SpecDownload == InitDownload /\ [][NextDownload]_vars

(* ------- SpecBuffer: calls on one WriteBuffer, one after another ------ *)

\* the byte slices a caller writes: up to MaxChunkSize bytes, none of them 0
Payloads == UNION {[1..n -> {1, 2}] : n \in 0..MaxChunkSize}

\* the slices NewWriteBuffer is given: nil, bytes that are there already,
\* or such bytes at the start of an array that was in use before
InitialBuffers ==
    {NilSlice, [dat |-> <<9>>, spare |-> <<>>],
     [dat |-> <<9>>, spare |-> <<7, 7>>]}

InitBuffer ==
    /\ buf \in InitialBuffers
    /\ prev = buf
    /\ op = NoCall
    /\ bw = <<>>
    /\ wao = NoWriter
    /\ maxRedirectCount = 0
    /\ ExecIdle
    /\ ChunksIdle
    /\ DownIdle

\* b.WriteAt(p, off), one of the MaxWorkers calls of a run of the model
BufWriteAt ==
    /\ op.n < MaxWorkers
    /\ \E p \in Payloads, off \in 0..MaxLength :
         /\ buf' = WriteAt(buf, p, off)
         /\ op' = [kind |-> "WriteAt", p |-> p, off |-> off, n |-> op.n + 1]
    /\ prev' = buf
    /\ UNCHANGED <<maxRedirectCount, execVars, chunkVars, downVars, bw, wao>>

\* b.Write(p), one of the MaxWorkers calls of a run of the model
BufWrite ==
    /\ op.n < MaxWorkers
    /\ \E p \in Payloads :
         /\ buf' = Write(buf, p)
         /\ op' = [kind |-> "Write", p |-> p, off |-> Len(buf.dat),
                   n |-> op.n + 1]
    /\ prev' = buf
    /\ UNCHANGED <<maxRedirectCount, execVars, chunkVars, downVars, bw, wao>>

NextBuffer == BufWriteAt \/ BufWrite

SpecBuffer == InitBuffer /\ [][NextBuffer]_vars

(* -- SpecAdapter: Writes through one WriterAtOffset over a WriteBuffer - *)
(* wao = [offset0, offset]: offset0 is the offset NewWriterAtOffset was   *)
(* given, offset the adapter's field as it is now.                        *)

\* NewWriterAtOffset(NewWriteBuffer(dst), offset)
InitAdapter ==
    /\ buf \in InitialBuffers
    /\ prev = buf
    /\ op = NoCall
    /\ bw = <<>>
    /\ \E o \in 0..MaxLength : wao = [offset0 |-> o, offset |-> o]
    /\ maxRedirectCount = 0
    /\ ExecIdle
    /\ ChunksIdle
    /\ DownIdle

\* w.Write(b), one of the MaxWorkers calls of a run of the model
AdapterWrite ==
    /\ op.n < MaxWorkers
    /\ \E b \in Payloads :
         /\ buf' = WriterAtOffsetWrite(buf, wao.offset, b)
         /\ wao' = [wao EXCEPT
                       !.offset = WriterAtOffsetAfterWrite(wao.offset, b)]
         /\ op' = [kind |-> "WriterAtOffset.Write", p |-> b,
                   off |-> wao.offset, n |-> op.n + 1]
    /\ prev' = buf
    /\ UNCHANGED <<maxRedirectCount, execVars, chunkVars, downVars, bw>>

NextAdapter == AdapterWrite

SpecAdapter == InitAdapter /\ [][NextAdapter]_vars

(* ---- SpecRace: WriteAt calls of distinct goroutines on one buffer ---- *)
(* WriteBuffer has no lock: a call is the reads and writes of b.dst its   *)
(* statements make, and the calls of two goroutines interleave.  bw[w] =  *)
(* [pc, p, off, new]: pc is "check" before the if, "store" when           *)
(* ExtendSlice has returned the slice new and b.dst is to be assigned,    *)
(* "copy" before the copy, then "done", or "panic" when b.dst[off:] was   *)
(* out of range.  The steps taken here are the interleavings of whole     *)
(* statements; the buffer starts on a slice without spare capacity, and   *)
(* every growth gets a backing array of its own.                          *)

Writers == 0..(MaxWorkers - 1)

\* the bytes goroutine w writes: n bytes w + 1
PayloadOf(w, n) == [k \in 1..n |-> w + 1]

\* the byte positions of a call's region
Region(c) == (c.off + 1)..(c.off + Len(c.p))

InitRace ==
    /\ buf \in {b \in InitialBuffers : b.spare = <<>>}
    /\ prev = buf
    /\ op = NoCall
    /\ \E offs \in [Writers -> 0..MaxLength],
          lens \in [Writers -> 1..MaxChunkSize] :
         /\ bw = [w \in Writers |->
                     [pc |-> "check", p |-> PayloadOf(w, lens[w]),
                      off |-> offs[w], new |-> NilSlice]]
         /\ \A v, w \in Writers :
                v # w => Region(bw[v]) \cap Region(bw[w]) = {}
    /\ wao = NoWriter
    /\ maxRedirectCount = 0
    /\ ExecIdle
    /\ ChunksIdle
    /\ DownIdle

\* if min := int(off) + len(p); min > len(b.dst) { ... ExtendSlice(b.dst, min)
RaceCheck(w) ==
    /\ bw[w].pc = "check"
    /\ LET min == bw[w].off + Len(bw[w].p)
       IN bw' = IF min > Len(buf.dat)
                THEN [bw EXCEPT ![w].pc = "store",
                                ![w].new = ExtendSlice(buf, min)]
                ELSE [bw EXCEPT ![w].pc = "copy"]
    /\ UNCHANGED <<maxRedirectCount, execVars, chunkVars, downVars, buf,
                   prev, op, wao>>

\* b.dst = (the slice ExtendSlice returned)
RaceStore(w) ==
    /\ bw[w].pc = "store"
    /\ buf' = bw[w].new
    /\ bw' = [bw EXCEPT ![w].pc = "copy"]
    /\ UNCHANGED <<maxRedirectCount, execVars, chunkVars, downVars, prev, op,
                   wao>>

\* return copy(b.dst[off:], p), nil
RaceCopy(w) ==
    /\ bw[w].pc = "copy"
    /\ IF bw[w].off > Len(buf.dat)
       THEN /\ bw' = [bw EXCEPT ![w].pc = "panic"]
            /\ UNCHANGED buf
       ELSE /\ buf' = Copy(buf, bw[w].p, bw[w].off)
            /\ bw' = [bw EXCEPT ![w].pc = "done"]
    /\ UNCHANGED <<maxRedirectCount, execVars, chunkVars, downVars, prev, op,
                   wao>>

NextRace ==
    \/ \E w \in Writers : RaceCheck(w)
    \/ \E w \in Writers : RaceStore(w)
    \/ \E w \in Writers : RaceCopy(w)

SpecRace == InitRace /\ [][NextRace]_vars

(* ------------------------------ claims -------------------------------- *)

\* the feeding loop ran to its end: it was not left by the timeout
FeedComplete == ppc \in {"wait", "done"} /\ ~cut

\* what DownloadSeriallyDeadline writes to an empty sink: the whole body
SerialContents(len) == Write(NilSlice, FullBody(len)).dat

\* c.DoDeadline was called for the range rg
Fetched(rg) == BagIn(rg, fetched)

\* the byte positions a range asks for, as the range header states them
Interval(rg) == SetByteRange(rg).first .. SetByteRange(rg).last

\* C1: whenever DownloadInChunksDeadline returns nil, the sink holds exactly
\* the resource's bytes 0..length-1, the contents a serial download writes.
\* (Stated as the claim states it; the code returns nil after a feeding cut
\* short by the deadline.)
C1_ChunkedEqualsSerial ==
    (ppc = "done" /\ result = Nil) => sink.dat = SerialContents(length)

\* C2: after a complete feeding, the enqueued ranges read as inclusive
\* intervals [Start, End] are pairwise disjoint and their union is exactly
\* 0..length-1.  (Stated as the claim states it.)
C2_RangesPartition ==
    FeedComplete =>
        /\ \A j, k \in 1..Len(enq) :
               j # k => Interval(enq[j]) \cap Interval(enq[k]) = {}
        /\ UNION {Interval(enq[k]) : k \in 1..Len(enq)} = 0..(length - 1)

\* C3: every enqueued range has Start <= End < length, and the last range
\* of a complete feeding ends at length-1.  (Stated as the claim states it.)
C3_RangesInBounds ==
    /\ \A k \in 1..Len(enq) :
           enq[k].Start <= enq[k].End /\ enq[k].End < length
    /\ (FeedComplete /\ enq # <<>>) => enq[Len(enq)].End = length - 1

\* C4: with a deadline in the future at the call, once the timer has fired
\* the call eventually returns, whether the workers are stalled or gone.
C4_DeadlineEndsCall == timerFired ~> (ppc = "done")

\* C4 witness: the call returned after the timeout cut the feeding while
\* the queue was full and every worker had already returned an error.
C4_Witness ==
    /\ ppc = "done" /\ cut
    /\ Len(ch) = numWorkers
    /\ \A w \in Workers : werr[w] # Nil
    /\ r.Start < length

\* C5: a chain of N <= maxRedirects redirects that carry a Location, then a
\* response that is no redirect: DoDeadline returns nil after exactly N + 1
\* transport calls and the request targets the last Location received.
C5_FollowsRedirectChain ==
    (last.kind = "final" /\ redirects <= maxRedirectCount) =>
        /\ x.pc = "done" /\ x.err = Nil
        /\ calls = redirects + 1
        /\ x.uri = IF redirects = 0 THEN Url ELSE last.location

\* C5 witness: success after as many redirects as the budget allows, the
\* last one to another target than the one before.
C5_Witness ==
    /\ x.pc = "done" /\ x.err = Nil /\ last.kind = "final"
    /\ redirects = maxRedirectCount /\ redirects >= 2
    /\ calls = redirects + 1
    /\ x.uri = "http://b/" /\ last.location = "http://b/"

\* C6: maxRedirects + 1 consecutive redirects that carry a Location make
\* DoDeadline return the too-many-redirects error after exactly
\* maxRedirects + 1 transport calls, and no call is ever made beyond those.
C6_TooManyRedirects ==
    /\ calls <= maxRedirectCount + 1
    /\ redirects = maxRedirectCount + 1 =>
           /\ x.pc = "done" /\ x.err = ErrTooManyRedirects
           /\ calls = maxRedirectCount + 1
    /\ x.err = ErrTooManyRedirects =>
           /\ x.pc = "done"
           /\ redirects = maxRedirectCount + 1
           /\ calls = maxRedirectCount + 1

\* C6 witness: the error after maxRedirects + 1 redirects, maxRedirects > 0.
C6_Witness ==
    /\ x.pc = "done" /\ x.err = ErrTooManyRedirects
    /\ maxRedirectCount >= 1
    /\ redirects = maxRedirectCount + 1 /\ calls = maxRedirectCount + 1

\* C7: a redirect response without a Location ends DoDeadline at once with
\* the missing-Location error: it was the last transport call, whatever
\* budget remains.
C7_MissingLocationHalts ==
    last.kind = "noLocation" =>
        /\ x.pc = "done" /\ x.err = ErrMissingLocation
        /\ calls = redirects + 1

\* C7 witness: the error at a later hop, with redirect budget left.
C7_Witness ==
    /\ last.kind = "noLocation" /\ x.pc = "done"
    /\ x.err = ErrMissingLocation
    /\ redirects >= 1 /\ redirects < maxRedirectCount

\* C8: a transport error at any hop ends DoDeadline at once with that same
\* error: it was the last transport call, whatever budget remains.
C8_TransportErrorNotRetried ==
    last.kind = "error" =>
        /\ x.pc = "done" /\ x.err = last.err
        /\ calls = redirects + 1

\* C8 witness: a connection error at a later hop, with redirect budget left.
C8_Witness ==
    /\ last.kind = "error" /\ x.pc = "done" /\ x.err = ErrConnection
    /\ redirects >= 1 /\ redirects < maxRedirectCount

\* C9 as stated: DownloadInChunksDeadline returns an error exactly when
\* some worker returned one, and the error it returns wraps the error of
\* the worker that failed first in time, the one whose function returned
\* its error first.
C9_FirstErrorWins ==
    ppc = "done" =>
        /\ (result # Nil) <=> (\E w \in Workers : werr[w] # Nil)
        /\ (result # Nil) <=> (failOrder # <<>>)
        /\ failOrder # <<>> => result = WaitResult(werr[failOrder[1]])

\* C9, amended: the call returns an error exactly when some worker
\* returned one, and the error it returns wraps the one the errgroup
\* recorded first: g.err is set by the first errOnce.Do that runs, to the
\* error of the worker running it, and is never replaced; with no worker
\* error the call returns nil.
C9_FirstRecordedErrorWins ==
    [][/\ gerr # Nil => gerr' = gerr
       /\ (gerr = Nil /\ gerr' # Nil) =>
              \E w \in Workers :
                  /\ wpc[w] = "once" /\ wpc'[w] = "done"
                  /\ werr[w] # Nil /\ gerr' = werr[w]
       /\ (ppc # "done" /\ ppc' = "done") =>
              /\ result' = WaitResult(gerr)
              /\ (result' # Nil) <=> (\E w \in Workers : werr[w] # Nil)
              /\ (result' = Nil) <=> (failOrder = <<>>)]_vars

\* C9 witness: two workers failed with different errors; the call returned
\* the error of the one whose function returned second, because its
\* errOnce.Do ran first.
C9_Witness ==
    /\ ppc = "done" /\ Len(failOrder) >= 2
    /\ werr[failOrder[1]].kind = "failed to write to file"
    /\ werr[failOrder[2]].kind = "failed to get bytes range"
    /\ result = WaitResult(werr[failOrder[2]])

\* C10: QueryHeadersDeadline has no error to report: a failed executor gives
\* (0, false), contentLength is never negative, and acceptsRanges is true
\* only after a successful request whose Accept-Ranges header is "bytes".
C10_QueryHeadersDegrades ==
    /\ q.contentLength >= 0
    /\ (q.pc = "returned" /\ x.err # Nil) =>
           (q.contentLength = 0 /\ q.acceptsRanges = FALSE)
    /\ q.acceptsRanges =>
           (q.pc = "returned" /\ x.err = Nil /\ x.res.acceptRanges = "bytes")
    /\ (q.pc = "returned" /\ x.err = Nil) =>
           q.contentLength = (IF x.res.contentLength > 0
                              THEN x.res.contentLength ELSE 0)

\* C10 witness: the probe returned (0, false) after a transport error that
\* left a response with Accept-Ranges: bytes and a positive length behind.
C10_Witness ==
    /\ q.pc = "returned" /\ x.err \in TransportErrors
    /\ x.res.acceptRanges = "bytes" /\ x.res.contentLength = 3
    /\ q.contentLength = 0 /\ q.acceptsRanges = FALSE

\* C11: whenever the probe yielded contentLength 0, the download that
\* follows takes the serial downloader path.  (Stated as the claim states
\* it; with c.AcceptsRanges set and Accept-Ranges: bytes reported, the code
\* returns the content-length error instead.)
C11_ZeroLengthGoesSerial ==
    (/\ caller \in {"DownloadBytesDeadline", "DownloadFileDeadline"}
     /\ d.pc \in {"serial", "chunks", "done"}
     /\ d.err \notin {ErrOpenFile, ErrTruncate(d.contentLength)}
     /\ d.contentLength = 0)
        => d.path = "serial"

\* C12: when c.DoDeadline fails inside DownloadSeriallyDeadline, the call
\* returns that error wrapped with the url, the sink is as the call found
\* it and was never written, and c.DoDeadline was called exactly once.
C12_SerialFailureWrapped ==
    (d.pc = "done" /\ d.path = "serial" /\ x.err # Nil) =>
        /\ d.err = ErrDownload(Url, x.err)
        /\ d.writes = 0
        /\ sink = d.sink0
        /\ d.execs = 1

\* C12 witness: the serial download behind DownloadBytesDeadline failed at
\* a later hop of its request, after a probe that reported a length.
C12_Witness ==
    /\ caller = "DownloadBytesDeadline"
    /\ d.pc = "done" /\ d.path = "serial"
    /\ d.contentLength = 3 /\ sink.dat = <<9, 9, 0>>
    /\ x.err \in TransportErrors /\ x.i >= 1
    /\ d.err = ErrDownload(Url, x.err)

\* C13: once the feed timer has fired, the producer enqueues no further
\* range: no step taken after the deadline event adds to the ranges sent.
\* (Stated as the claim states it; the select may still take  case ch <- r
\* when the timer's channel is ready too.)
C13_NoEnqueueAfterDeadline == [][timerFired => enq' = enq]_vars

\* C14 as stated: when the call has returned, every range that was
\* enqueued has been dequeued and passed to c.DoDeadline by some worker.
C14_EnqueuedAllFetched ==
    ppc = "done" => \A k \in 1..Len(enq) : Fetched(enq[k])

\* C14, amended: when the call has returned and at least one worker returned
\* without an error, the queue is empty and every enqueued range was fetched,
\* also after a feeding cut by the deadline; in every case a range that was
\* not fetched is still in the queue, which only happens when every worker
\* returned an error.
C14_EnqueuedFetchedUnlessAllFailed ==
    ppc = "done" =>
        /\ (\E w \in Workers : werr[w] = Nil) =>
               /\ ch = <<>>
               /\ \A k \in 1..Len(enq) : Fetched(enq[k])
        /\ \A k \in 1..Len(enq) :
               \/ Fetched(enq[k])
               \/ \E j \in 1..Len(ch) : ch[j] = enq[k]
        /\ ch # <<>> => \A w \in Workers : werr[w] # Nil

\* C14 witness: the producer stopped early at the deadline, one worker had
\* returned an error, and the other one fetched all that was enqueued.
C14_Witness ==
    /\ ppc = "done" /\ cut
    /\ Len(enq) >= 2 /\ Len(failOrder) = 1
    /\ \E w \in Workers : werr[w] = Nil /\ got[w]
    /\ \A k \in 1..Len(enq) : Fetched(enq[k])

\* the sink holds the body of range rg at rg's offset
Landed(rg) ==
    LET h == SetByteRange(rg)
        body == RangeBody(h.first, h.last, length)
    IN /\ Len(sink.dat) >= rg.Start + Len(body)
       /\ \A k \in 1..Len(body) : sink.dat[rg.Start + k] = body[k]

\* C15: a worker's error cancels no sibling: a worker that returned without
\* an error of its own left only on the closed and drained queue, whatever
\* the errgroup already holds, and every chunk written after the first
\* failure is in the sink at its offset, as is every chunk written.
C15_SiblingsNotCancelled ==
    /\ \A w \in Workers :
           (wpc[w] = "done" /\ werr[w] = Nil) => (closed /\ ch = <<>>)
    /\ \A w \in Workers :
           (failOrder # <<>> /\ wpc[w] = "recv" /\ ch # <<>>) =>
               ENABLED Recv(w)
    /\ \A rg \in written : Landed(rg)

\* C15 witness: the call returned the error of a worker whose request
\* failed; a sibling went on, wrote a chunk after that failure, and the
\* sink holds every chunk written.
C15_Witness ==
    /\ ppc = "done" /\ result # Nil /\ Len(failOrder) = 1
    /\ werr[failOrder[1]].kind = "failed to get bytes range"
    /\ late /\ Cardinality(written) >= 2
    /\ \A rg \in written : Landed(rg)
    /\ \E w \in Workers : werr[w] = Nil /\ got[w]

\* C16: after the WriteAt calls of distinct goroutines at disjoint offsets
\* have completed, each region holds the bytes written to it, also when the
\* calls had to grow the buffer.  (Stated as the claim states it; WriteAt
\* reads, replaces and writes b.dst without any synchronisation.)
C16_ConcurrentWriteAtKeepsData ==
    (\A w \in Writers : bw[w].pc \in {"done", "panic"}) =>
        \A w \in Writers :
            /\ bw[w].pc = "done"
            /\ Len(buf.dat) >= bw[w].off + Len(bw[w].p)
            /\ \A k \in 1..Len(bw[w].p) : buf.dat[bw[w].off + k] = bw[w].p[k]

\* C19: WriteAt(p, off) leaves the buffer max(old length, off + len(p))
\* bytes long, with p at [off, off + len(p)), zeros in a gap between the
\* old length and off, and every other byte as it was; Write(p) puts p at
\* the old length and changes nothing before it.  (Stated as the claim
\* states it; ExtendSlice reslices to the capacity before it appends, so the
\* gap shows the bytes the backing array held there.)
C19_WriteAtAndWriteEffect ==
    /\ op.kind = "WriteAt" =>
           /\ Len(buf.dat) = IF Len(prev.dat) > op.off + Len(op.p)
                             THEN Len(prev.dat)
                             ELSE op.off + Len(op.p)
           /\ \A k \in 1..Len(buf.dat) :
                  buf.dat[k] = IF k > op.off /\ k <= op.off + Len(op.p)
                               THEN op.p[k - op.off]
                               ELSE IF k <= Len(prev.dat) THEN prev.dat[k]
                               ELSE 0
    /\ op.kind = "Write" =>
           /\ Len(buf.dat) = Len(prev.dat) + Len(op.p)
           /\ \A k \in 1..Len(prev.dat) : buf.dat[k] = prev.dat[k]
           /\ \A k \in 1..Len(op.p) : buf.dat[Len(prev.dat) + k] = op.p[k]

\* C17: with 0 < length <= chunkSize, the producer enqueues exactly one
\* range, and it is [0, length-1].  (Stated as the claim states it; the
\* range the code enqueues is {0, length}.)
C17_SingleRangeWholeResource ==
    (FeedComplete /\ length <= chunkSize) =>
        enq = <<[Start |-> 0, End |-> length - 1]>>

\* C18: a worker that never received a range issued no transport request
\* and, once it has returned, did so without an error on the closed and
\* drained queue; the result of the call is made by the workers that did
\* receive ranges, and a complete run without failures gives nil and the
\* whole resource however many workers stayed idle.
C18_IdleWorkersHarmless ==
    /\ \A w \in Workers :
           ~got[w] =>
               /\ ~asked[w]
               /\ werr[w] = Nil
               /\ wpc[w] = "done" => (closed /\ ch = <<>>)
    /\ ppc = "done" =>
           /\ result # Nil =>
                  \E w \in Workers : got[w] /\ result = WaitResult(werr[w])
           /\ (FeedComplete /\ \A w \in Workers : werr[w] = Nil) =>
                  (result = Nil /\ sink.dat = SerialContents(length))

\* C18 witness: two workers for a single range: one of them never received
\* a range and returned nil, the call returned nil with the resource in
\* the sink.
C18_Witness ==
    /\ ppc = "done" /\ FeedComplete
    /\ numWorkers > Len(enq) /\ Len(enq) = 1
    /\ \E w \in Workers : ~got[w] /\ wpc[w] = "done" /\ werr[w] = Nil
    /\ BagCardinality(fetched) = 1
    /\ result = Nil /\ sink.dat = SerialContents(length)

\* C20: with no deadline the call returns: as long as it has not returned,
\* the producer or some worker can take a step.  (Stated as the claim
\* states it; the producer waits for ever on a full queue that no worker
\* is left to read.)
C20_ZeroDeadlineReturns ==
    (deadline = "zero" /\ ppc # "done") => ENABLED Next

\* C21 as stated: the call returns nil only if the producer enqueued every
\* range; after a feeding cut short by the deadline the result is never nil.
\* (Stated as the claim states it; the result is what g.Wait() returns, and
\* the timeout branch of the Feed loop records nothing.)
C21_NilOnlyAfterCompleteFeed ==
    (ppc = "done" /\ result = Nil) => ~cut

\* C22: the call returns only after every worker has returned, with or
\* without an error: once it has returned no worker can receive a range,
\* call the transport or write to the sink.
C22_ReturnsAfterAllWorkers ==
    ppc = "done" =>
        /\ \A w \in Workers : wpc[w] = "done"
        /\ \A w \in Workers :
               /\ ~ENABLED Recv(w) /\ ~ENABLED Fetch(w)
               /\ ~ENABLED WriteBody(w) /\ ~ENABLED Once(w)

\* C22 witness: the call returned an error while a sibling of the failed
\* worker had gone on fetching and writing after that failure; both workers
\* had received ranges and both have returned.
C22_Witness ==
    /\ ppc = "done" /\ result # Nil /\ late
    /\ numWorkers = 2 /\ \A w \in Workers : got[w] /\ wpc[w] = "done"
    /\ \E w \in Workers : werr[w] = Nil

\* C23 as stated: with a deadline that had already elapsed when the call was
\* made the call returns: as long as it has not returned, the producer or
\* some worker can take a step.  (Stated as the claim states it; the timer
\* is armed only for a deadline still ahead, so the producer's select has
\* no timeout case and waits on the full queue.)
C23_ElapsedDeadlineReturns ==
    (deadline = "past" /\ ppc # "done") => ENABLED Next

\* C24: once DownloadDeadline has taken its branch: with c.AcceptsRanges
\* and acceptsRanges both set and contentLength <= 0 it has returned the
\* content-length error, the serial downloader was not entered, nothing
\* was written and the sink is as it was, and a direct call made no
\* transport request at all; with either flag unset the serial downloader
\* was entered and called c.DoDeadline, whatever contentLength is.
C24_UnknownLengthError ==
    (caller # "DownloadSeriallyDeadline" /\ d.path # "none") =>
        /\ (cAcceptsRanges /\ d.acceptsRanges /\ d.contentLength <= 0) =>
               /\ d.pc = "done" /\ d.path = "error"
               /\ d.err = ErrContentLength(d.contentLength)
               /\ d.execs = 0 /\ d.writes = 0
               /\ sink = d.sink0
               /\ caller = "DownloadDeadline" => calls = 0
               /\ ~ENABLED SerialHop /\ ~ENABLED SerialReturn
        /\ ~(cAcceptsRanges /\ d.acceptsRanges) =>
               /\ d.path = "serial" /\ d.execs = 1
               /\ d.pc \in {"serial", "done"}
               /\ d.pc = "done" => calls >= 1

\* C24 witness: DownloadDeadline called with acceptsRanges set and the
\* length -1 that fasthttp reports for a chunked response, on a client that
\* accepts ranges: it returned the error and no request was made.
C24_Witness ==
    /\ caller = "DownloadDeadline" /\ d.pc = "done" /\ d.path = "error"
    /\ cAcceptsRanges /\ d.acceptsRanges /\ d.contentLength = -1
    /\ d.err = ErrContentLength(-1)
    /\ calls = 0 /\ d.writes = 0 /\ sink = NilSlice

\* C25: each enqueued range is received by one worker and fetched once: the
\* ranges taken out of the queue are those fetched plus those a worker is
\* about to fetch, no range was fetched twice and none that was not
\* enqueued; when the call has returned nil after a complete feed, the
\* number of fetches is ceil(length / chunkSize), every enqueued range was
\* written and the sink holds each body at its range's Start.
C25_EachRangeFetchedOnce ==
    /\ \A rg \in BagToSet(fetched) :
           /\ CopiesIn(rg, fetched) = 1
           /\ \E k \in 1..Len(enq) : enq[k] = rg
    /\ \A j, k \in 1..Len(enq) : enq[j] = enq[k] => j = k
    /\ BagCardinality(fetched)
           + Cardinality({w \in Workers : wpc[w] = "fetch"})
         = Len(enq) - Len(ch)
    /\ (ppc = "done" /\ result = Nil /\ FeedComplete) =>
           /\ BagCardinality(fetched)
                  = (length + chunkSize - 1) \div chunkSize
           /\ Len(enq) = BagCardinality(fetched)
           /\ written = {enq[k] : k \in 1..Len(enq)}
           /\ \A rg \in written : Landed(rg) /\ Fetched(rg)

\* C25 witness: three ranges shared by two workers that both received
\* some: the call returned nil after three fetches, each range written at
\* its Start.
C25_Witness ==
    /\ ppc = "done" /\ result = Nil /\ FeedComplete
    /\ length = 3 /\ chunkSize = 1 /\ numWorkers = 2
    /\ \A w \in Workers : got[w]
    /\ BagCardinality(fetched) = 3
    /\ \A k \in 1..3 : enq[k].Start = k - 1 /\ Landed(enq[k])

\* C26: all numWorkers workers are started before the first range is
\* enqueued and no further one afterwards, the queue never holds more than
\* numWorkers ranges, and the queue is closed once, after the last
\* enqueue: it is closed exactly when the Feed loop has been left, and from
\* then on no iteration of the loop, hence no enqueue and no second close,
\* can take place.
C26_SpawnFeedCloseOrder ==
    /\ spawned <= numWorkers
    /\ (ppc # "spawn" \/ enq # <<>>) =>
           /\ spawned = numWorkers
           /\ \A w \in Workers : wpc[w] # "idle"
           /\ ~ENABLED Spawn
    /\ ppc = "spawn" => (enq = <<>> /\ ch = <<>> /\ ~closed)
    /\ Len(ch) <= numWorkers
    /\ closed <=> ppc \in {"wait", "done"}
    /\ closed =>
           ~ENABLED FeedSend /\ ~ENABLED FeedTimeout /\ ~ENABLED FeedDone

\* C26 witness: three ranges for two workers: the queue was closed after
\* the third enqueue while it held numWorkers ranges.
C26_Witness ==
    /\ closed /\ ppc = "wait" /\ ~cut
    /\ numWorkers = 2 /\ spawned = 2
    /\ Len(enq) = 3 /\ Len(ch) = 2
    /\ ch[2] = enq[3]

\* C27: a Write through a WriterAtOffset is one WriteAt on the wrapped
\* sink at the offset the adapter was made with, and leaves the adapter's
\* offset as it was: after any number of Writes the offset is the one
\* given at construction, and the bytes of the last Write start there.
C27_WriterAtOffsetKeepsOffset ==
    /\ wao.offset = wao.offset0
    /\ op.kind = "WriterAtOffset.Write" =>
           /\ op.off = wao.offset0
           /\ buf = WriteAt(prev, op.p, wao.offset0)
           /\ Len(buf.dat) >= wao.offset0 + Len(op.p)
           /\ \A k \in 1..Len(op.p) : buf.dat[wao.offset0 + k] = op.p[k]

\* C27 witness: two Writes through an adapter made with offset 1: the
\* second one, of other bytes, replaced what the first had put at offset 1.
C27_Witness ==
    /\ op.kind = "WriterAtOffset.Write" /\ op.n = 2
    /\ wao.offset0 = 1 /\ wao.offset = 1
    /\ Len(prev.dat) >= 3 /\ prev.dat[2] = 1 /\ prev.dat[3] = 1
    /\ op.p = <<2>>
    /\ buf.dat = [prev.dat EXCEPT ![2] = 2]

====
